---------------------------- MODULE Spec2Model ----------------------------
(***************************************************************************)
(* V4 signed-URL construction of src/resources/object.rs                   *)
(* (Object::download_url, Object::sign and its helpers, and the two        *)
(* percent-encoders), and the listing of a bucket (Object::list,           *)
(* Object::list_prefix).                                                   *)
(*                                                                         *)
(* A Rust String is modelled as the sequence of its UTF-8 bytes (0..255).  *)
(* A chrono::DateTime<Utc> is modelled as its number of seconds since      *)
(* 1970-01-01T00:00:00Z, and is formatted through the civil calendar.      *)
(***************************************************************************)
EXTENDS Integers, Sequences, FiniteSets, TLC

VARIABLES
    SERVICE_ACCOUNT,  \* crate::SERVICE_ACCOUNT: [client_email, private_key]
    clock,            \* what chrono::Utc::now() returns when it is read
    ticks,            \* how often the clock has advanced (bounded by MaxTicks)
    calls,            \* per call of download_url: its frame (see IdleCall)
    fn,               \* the helper most recently applied on its own (see FnSpec)
    store,            \* the names of the objects stored in the bucket (see ListSpec)
    listing           \* how the caller's last call of list or list_prefix ended

vars == <<SERVICE_ACCOUNT, clock, ticks, calls, fn, store, listing>>

-----------------------------------------------------------------------------
(* Bytes of string literals                                                *)

\* The printable ASCII characters a literal of the source may hold, by code.
Ascii32 == " !"
Ascii35 == "#$%&'()*+,-./0123456789:;<=>?@ABCDEFGHIJKLMNOPQRSTUVWXYZ["
Ascii93 == "]^_"
Ascii97 == "abcdefghijklmnopqrstuvwxyz{|}~"

CharAt(s, i) == SubSeq(s, i, i)

\* The ASCII code of the one-character string ch.
Code(ch) ==
    IF \E i \in 1..Len(Ascii35) : CharAt(Ascii35, i) = ch
    THEN 34 + (CHOOSE i \in 1..Len(Ascii35) : CharAt(Ascii35, i) = ch)
    ELSE IF \E i \in 1..Len(Ascii97) : CharAt(Ascii97, i) = ch
    THEN 96 + (CHOOSE i \in 1..Len(Ascii97) : CharAt(Ascii97, i) = ch)
    ELSE IF \E i \in 1..Len(Ascii93) : CharAt(Ascii93, i) = ch
    THEN 92 + (CHOOSE i \in 1..Len(Ascii93) : CharAt(Ascii93, i) = ch)
    ELSE 31 + (CHOOSE i \in 1..Len(Ascii32) : CharAt(Ascii32, i) = ch)

\* The UTF-8 bytes of an ASCII string literal.
Bytes(s) == [i \in 1..Len(s) |-> Code(CharAt(s, i))]

NL == <<10>>

RECURSIVE Concat(_)
\* format!: the pieces of a format string, joined in order.
Concat(parts) ==
    IF parts = <<>> THEN <<>> ELSE Head(parts) \o Concat(Tail(parts))

IsDigit(b) == b \in 48..57
IsUpper(b) == b \in 65..90
IsLower(b) == b \in 97..122
IsAlnum(b) == IsDigit(b) \/ IsUpper(b) \/ IsLower(b)

-----------------------------------------------------------------------------
(* Number formatting                                                       *)

RECURSIVE Dec(_)
\* Display of an unsigned integer ({} of a u32): decimal, no padding.
Dec(n) == IF n < 10 THEN <<48 + n>> ELSE Dec(n \div 10) \o <<48 + (n % 10)>>

\* A number zero-padded to two (%m %d %H %M %S) or four (%Y) digits.
Pad2(n) == <<48 + ((n \div 10) % 10), 48 + (n % 10)>>
Pad4(n) ==
    <<48 + ((n \div 1000) % 10), 48 + ((n \div 100) % 10),
      48 + ((n \div 10) % 10), 48 + (n % 10)>>

HexLower == Bytes("0123456789abcdef")
HexUpper == Bytes("0123456789ABCDEF")

\* hex::encode: two lowercase hex digits per byte.
hex_encode(bs) ==
    [i \in 1..(2 * Len(bs)) |->
        IF i % 2 = 1 THEN HexLower[(bs[(i + 1) \div 2] \div 16) + 1]
        ELSE HexLower[(bs[i \div 2] % 16) + 1]]

-----------------------------------------------------------------------------
(* UTF-8: a &str holds the UTF-8 encoding of its characters                *)

\* The UTF-8 bytes of the character with code point cp.
Utf8(cp) ==
    IF cp < 128 THEN <<cp>>
    ELSE IF cp < 2048 THEN <<192 + (cp \div 64), 128 + (cp % 64)>>
    ELSE IF cp < 65536
    THEN <<224 + (cp \div 4096), 128 + ((cp \div 64) % 64), 128 + (cp % 64)>>
    ELSE <<240 + (cp \div 262144), 128 + ((cp \div 4096) % 64),
           128 + ((cp \div 64) % 64), 128 + (cp % 64)>>

RECURSIVE Str(_)
\* The string made of the characters cps (a sequence of code points).
Str(cps) == IF cps = <<>> THEN <<>> ELSE Utf8(Head(cps)) \o Str(Tail(cps))

-----------------------------------------------------------------------------
(* Percent-encoders (object.rs 717-733)                                    *)

\* percent_encoding::NON_ALPHANUMERIC: every ASCII byte that is no letter or digit.
NON_ALPHANUMERIC == {b \in 0..127 : ~IsAlnum(b)}

\* AsciiSet::remove.
Remove(set, ch) == set \ {Code(ch)}

\* Mutant: the percent sign is removed from the set as well.
ENCODE_SET_without_percent ==
    Remove(Remove(Remove(Remove(Remove(NON_ALPHANUMERIC, "*"), "-"), "."), "_"), "%")

ENCODE_SET == Remove(Remove(Remove(Remove(NON_ALPHANUMERIC, "*"), "-"), "."), "_")

NOSLASH_ENCODE_SET == Remove(Remove(ENCODE_SET, "/"), "~")

\* AsciiSet::should_percent_encode: non-ASCII bytes are always encoded.
should_percent_encode(set, b) == b >= 128 \/ b \in set

\* percent_encoding::percent_encode_byte: "%XX" with uppercase hex digits.
percent_encode_byte(b) ==
    <<37, HexUpper[(b \div 16) + 1], HexUpper[(b % 16) + 1]>>

RECURSIVE PercentEncodeRange(_, _, _, _)
\* The encoding of bytes lo..hi of input, each byte on its own, in order.
PercentEncodeRange(input, set, lo, hi) ==
    IF lo > hi THEN <<>>
    ELSE IF lo = hi
    THEN (IF should_percent_encode(set, input[lo])
          THEN percent_encode_byte(input[lo])
          ELSE <<input[lo]>>)
    ELSE LET mid == (lo + hi) \div 2
         IN  PercentEncodeRange(input, set, lo, mid)
             \o PercentEncodeRange(input, set, mid + 1, hi)

\* utf8_percent_encode(input, set).to_string(): byte by byte over input.as_bytes().
utf8_percent_encode(input, set) == PercentEncodeRange(input, set, 1, Len(input))

\* Mutant: the path encoder uses the set of the strict encoder.
percent_encode_noslash_strict(input) == utf8_percent_encode(input, ENCODE_SET)

percent_encode_noslash(input) == utf8_percent_encode(input, NOSLASH_ENCODE_SET)

percent_encode(input) == utf8_percent_encode(input, ENCODE_SET)

-----------------------------------------------------------------------------
(* chrono::DateTime<Utc> and its formats                                   *)

\* The civil date [y, m, d] of day number z (days since 1970-01-01).
CivilFromDays(z) ==
    LET zz  == z + 719468
        era == zz \div 146097
        doe == zz - era * 146097
        yoe == (doe - doe \div 1460 + doe \div 36524 - doe \div 146096) \div 365
        doy == doe - (365 * yoe + yoe \div 4 - yoe \div 100)
        mp  == (5 * doy + 2) \div 153
        dd  == doy - (153 * mp + 2) \div 5 + 1
        mm  == IF mp < 10 THEN mp + 3 ELSE mp - 9
    IN  [y |-> yoe + era * 400 + (IF mm <= 2 THEN 1 ELSE 0), m |-> mm, d |-> dd]

\* date.format("%Y%m%d")
FormatYmd(date) ==
    LET c == CivilFromDays(date \div 86400)
    IN  Pad4(c.y) \o Pad2(c.m) \o Pad2(c.d)

\* date.format("%Y%m%dT%H%M%SZ")
FormatYmdTHmsZ(date) ==
    LET s == date % 86400
    IN  FormatYmd(date) \o <<84>> \o Pad2(s \div 3600)
        \o Pad2((s \div 60) % 60) \o Pad2(s % 60) \o <<90>>

-----------------------------------------------------------------------------
(* openssl: SHA-256 and the RSA signer of sign_str                         *)
(* The primitives are external; they are modelled as deterministic         *)
(* functions of all of their input, with a fixed-length output.            *)

RECURSIVE Mix(_, _, _)
\* A 16-bit value that depends on every byte of bs[lo..hi] and on its place.
Mix(bs, lo, hi) ==
    IF lo > hi THEN 7
    ELSE IF lo = hi THEN bs[lo] + 1
    ELSE LET mid == (lo + hi) \div 2
         IN  (Mix(bs, lo, mid) * 257 + Mix(bs, mid + 1, hi) * 31 + (hi - lo)) % 65536

\* sha::sha256(bytes): a digest over the exact byte sequence.
sha256(bs) == LET h == Mix(bs, 1, Len(bs)) IN <<h \div 256, h % 256>>

\* The PEM documents a credential may hold, and what is in each.
PemRsaA == "pem-rsa-a"
PemRsaB == "pem-rsa-b"
PemEd25519 == "pem-ed25519"
PemGarbage == "not-a-pem"

\* PKey::private_key_from_pem: Err(ErrorStack) unless the PEM holds a private key.
private_key_from_pem(pem) ==
    CASE pem = PemRsaA -> [ok |-> TRUE, alg |-> "RSA", d |-> 3]
      [] pem = PemRsaB -> [ok |-> TRUE, alg |-> "RSA", d |-> 5]
      [] pem = PemEd25519 -> [ok |-> TRUE, alg |-> "ED25519", d |-> 11]
      [] OTHER -> [ok |-> FALSE, alg |-> "", d |-> 0]

\* Signer::new(MessageDigest::sha256(), &key): a digest cannot be given with an
\* Ed25519 key, for which OpenSSL refuses the context.
SignerNewOk(key) == key.alg = "RSA"

\* Signer::update + sign_to_vec: the PKCS#1 v1.5 signature of the SHA-256 digest
\* of the message, a deterministic function of key and message.
sign_to_vec(key, message) == sha256(<<key.d>> \o sha256(message))

-----------------------------------------------------------------------------
(* The string literals of the source                                       *)

HOST_HEADER == Bytes("host:storage.googleapis.com")
SIGNED_HEADERS == Bytes("host")
PAYLOAD == Bytes("UNSIGNED-PAYLOAD")
SIGNING_ALGORITHM == Bytes("GOOG4-RSA-SHA256")
SCOPE_SUFFIX == Bytes("/henk/storage/goog4_request")
URL_HOST == Bytes("https://storage.googleapis.com")
GET == Bytes("GET")
POST == Bytes("POST")
SLASH == Bytes("/")
QUESTION == Bytes("?")
AMP == Bytes("&")
Q_ALGORITHM == Bytes("X-Goog-Algorithm=")
Q_CREDENTIAL == Bytes("&X-Goog-Credential=")
Q_DATE == Bytes("&X-Goog-Date=")
Q_EXPIRES == Bytes("&X-Goog-Expires=")
Q_SIGNED_HEADERS == Bytes("&X-Goog-SignedHeaders=")
Q_SIGNATURE == Bytes("X-Goog-Signature=")
DURATION_MSG == Bytes("duration may not be greater than 604800, but was ")

-----------------------------------------------------------------------------
(* The helpers of Object::sign (object.rs 652-714)                         *)

\* Result<_, Error> values.
Ok(v) == [tag |-> "Ok", err |-> "", val |-> v]
Err(kind, msg) == [tag |-> "Err", err |-> kind, val |-> msg]
NoResult == [tag |-> "None", err |-> "", val |-> <<>>]

\* Mutant: the empty line after the canonical headers is left out.
get_canonical_request_no_blank_line(path, query_string, http_verb) ==
    Concat(<<http_verb, NL,
             path, NL,
             query_string, NL,
             HOST_HEADER, NL,
             SIGNED_HEADERS, NL,
             PAYLOAD>>)

get_canonical_request(path, query_string, http_verb) ==
    Concat(<<http_verb, NL,
             path, NL,
             query_string, NL,
             HOST_HEADER, NL,
             NL,
             SIGNED_HEADERS, NL,
             PAYLOAD>>)

\* Mutant: another region token than the one of the source.
get_credential_scope_auto(date) ==
    FormatYmd(date) \o Bytes("/auto/storage/goog4_request")

get_credential_scope(date) ==
    FormatYmd(date) \o SCOPE_SUFFIX

\* Mutant: X-Goog-Expires is written before X-Goog-Date.
get_canonical_query_string_expires_first(date, exp) ==
    LET credential ==
            Concat(<<SERVICE_ACCOUNT.client_email, SLASH,
                     get_credential_scope(date)>>)
    IN  Concat(<<Q_ALGORITHM, SIGNING_ALGORITHM,
                 Q_CREDENTIAL, percent_encode(credential),
                 Bytes("&X-Goog-Expires="), Dec(exp),
                 Bytes("&X-Goog-Date="), FormatYmdTHmsZ(date),
                 Q_SIGNED_HEADERS, SIGNED_HEADERS>>)

get_canonical_query_string(date, exp) ==
    LET credential ==
            Concat(<<SERVICE_ACCOUNT.client_email, SLASH,
                     get_credential_scope(date)>>)
    IN  Concat(<<Q_ALGORITHM, SIGNING_ALGORITHM,
                 Q_CREDENTIAL, percent_encode(credential),
                 Q_DATE, FormatYmdTHmsZ(date),
                 Q_EXPIRES, Dec(exp),
                 Q_SIGNED_HEADERS, SIGNED_HEADERS>>)

path_to_resource(self, path) ==
    Concat(<<SLASH, self.bucket, SLASH, percent_encode_noslash(path)>>)

\* Mutant: the signature is salted with the time of signing.
sign_str_salted(message) ==
    LET key == private_key_from_pem(SERVICE_ACCOUNT.private_key)
    IN  IF ~key.ok THEN Err("ErrorStack", <<1>>)
        ELSE IF ~SignerNewOk(key) THEN Err("ErrorStack", <<2>>)
        ELSE Ok(sign_to_vec(key, message \o Dec(clock)))

\* sign_str(message): each ? returns the openssl error to the caller.
sign_str(message) ==
    LET key == private_key_from_pem(SERVICE_ACCOUNT.private_key)
    IN  IF ~key.ok THEN Err("ErrorStack", <<1>>)
        ELSE IF ~SignerNewOk(key) THEN Err("ErrorStack", <<2>>)
        ELSE Ok(sign_to_vec(key, message))

\* Mutant: the scope line takes the date from the clock again.
string_to_sign_of_rereads_clock(issue_date, hex_hash) ==
    Concat(<<SIGNING_ALGORITHM, NL,
             FormatYmdTHmsZ(issue_date), NL,
             get_credential_scope(clock), NL,
             hex_hash>>)

\* The string to sign of step 3 of sign.
string_to_sign_of(issue_date, hex_hash) ==
    Concat(<<SIGNING_ALGORITHM, NL,
             FormatYmdTHmsZ(issue_date), NL,
             get_credential_scope(issue_date), NL,
             hex_hash>>)

\* Mutant: the signature is put before the other parameters.
signed_url_of_signature_first(file_path, query_string, signature) ==
    Concat(<<URL_HOST, file_path, QUESTION,
             Q_SIGNATURE, signature, AMP, query_string>>)

\* The signed url of step 5 of sign.
signed_url_of(file_path, query_string, signature) ==
    Concat(<<URL_HOST, file_path, QUESTION,
             query_string, AMP,
             Q_SIGNATURE, signature>>)

MAX_DURATION == 604800

\* Mutants of the guard: the bound taken exclusive, the bound off by one, and a
\* lower bound added.
DurationTooLong_exclusive(duration) == duration >= MAX_DURATION
DurationTooLong_off_by_one(duration) == duration > MAX_DURATION + 1
DurationTooLong_or_zero(duration) == duration = 0 \/ duration > MAX_DURATION

\* The guard of sign and the message of its error.
DurationTooLong(duration) == duration > MAX_DURATION

DurationError(duration) ==
    Err("Other",
        DURATION_MSG \o Dec(duration))

-----------------------------------------------------------------------------
(* Inputs                                                                  *)

NumThreads == 2
MaxTicks == 2
MaxEncLen == 3
MaxDays == 60

Threads == 1..NumThreads

\* The service accounts the process may have been configured with.
Accounts ==
    { [client_email |-> Bytes("sa@p-1.iam"), private_key |-> PemRsaA],
      [client_email |-> Bytes("x_y@q.com"), private_key |-> PemRsaB],
      [client_email |-> Bytes("sa@p-1.iam"), private_key |-> PemEd25519],
      [client_email |-> Bytes("sa@p-1.iam"), private_key |-> PemGarbage] }

\* 2021-03-04T10:00:00Z and 2021-03-04T23:59:59Z.
StartInstants == {1614852000, 1614902399}

\* The objects download_url is called on (the fields sign reads).
Objects ==
    { [bucket |-> Bytes("my_bucket"), name |-> Bytes("path/to/file.png")],
      [bucket |-> Bytes("my-bucket"), name |-> Bytes("my-file")],
      [bucket |-> Bytes("b"), name |-> Bytes("a b/c")],
      [bucket |-> Bytes("b"), name |-> Str(<<228, 27979>>) \o Bytes("%~?&#=+") \o NL],
      [bucket |-> Bytes("my bucket?x"), name |-> Bytes("f")] }

\* The durations download_url is called with (u32).
Durations ==
    {0, 1, 100, MAX_DURATION - 1, MAX_DURATION, MAX_DURATION + 1, 2147483647}

NoDate == -1
NoObject == [bucket |-> <<>>, name |-> <<>>]

\* The frame of a call: the arguments and locals of sign, and what it has asked
\* of the clock and of the signer so far.
IdleCall ==
    [ pc |-> "idle", self |-> NoObject, path |-> <<>>, duration |-> 0,
      http_verb |-> <<>>, issue_date |-> NoDate, file_path |-> <<>>,
      query_string |-> <<>>, canonical_request |-> <<>>, hex_hash |-> <<>>,
      string_to_sign |-> <<>>, buffer |-> NoResult, signature |-> <<>>,
      result |-> NoResult, now_reads |-> 0, key_parses |-> 0, signed |-> <<>> ]

FnIdle == [op |-> "idle", s1 |-> <<>>, s2 |-> <<>>, s3 |-> <<>>, t |-> 0, out |-> <<>>]

\* No call of list or list_prefix has been made.
NoListing == [status |-> "none", prefix |-> <<>>, items |-> {}]

Init ==
    /\ SERVICE_ACCOUNT \in Accounts
    /\ clock \in StartInstants
    /\ ticks = 0
    /\ calls = [t \in Threads |-> IdleCall]
    /\ fn = FnIdle
    /\ store = {}
    /\ listing = NoListing

-----------------------------------------------------------------------------
(* Object::download_url and Object::sign, one action per statement         *)

Step(t, frame) ==
    /\ calls' = [calls EXCEPT ![t] = frame]
    /\ UNCHANGED <<SERVICE_ACCOUNT, clock, ticks, fn, store, listing>>

\* The clock advances by a second.
Tick ==
    /\ ticks < MaxTicks
    /\ clock' = clock + 1
    /\ ticks' = ticks + 1
    /\ UNCHANGED <<SERVICE_ACCOUNT, calls, fn, store, listing>>

\* Mutant: the signature is made for the verb of upload_url.
download_url_as_post(t, self, duration) ==
    /\ calls[t].pc = "idle"
    /\ Step(t, [IdleCall EXCEPT !.pc = "guard", !.self = self, !.path = self.name,
                                !.duration = duration, !.http_verb = POST])

\* download_url(&self, duration): enters sign(&self.name, duration, "GET").
download_url(t, self, duration) ==
    /\ calls[t].pc = "idle"
    /\ Step(t, [IdleCall EXCEPT !.pc = "guard", !.self = self, !.path = self.name,
                                !.duration = duration, !.http_verb = GET])

\* if duration > 604800 { return Err(Error::Other(msg)); }
SignGuard(t) ==
    /\ calls[t].pc = "guard"
    /\ IF DurationTooLong(calls[t].duration)
       THEN Step(t, [calls[t] EXCEPT !.pc = "returned",
                                     !.result = DurationError(calls[t].duration)])
       ELSE Step(t, [calls[t] EXCEPT !.pc = "now"])

\* let issue_date = chrono::Utc::now();
SignNow(t) ==
    /\ calls[t].pc = "now"
    /\ Step(t, [calls[t] EXCEPT !.pc = "path", !.issue_date = clock,
                                !.now_reads = @ + 1])

\* let file_path = self.path_to_resource(file_path);
SignPath(t) ==
    /\ calls[t].pc = "path"
    /\ Step(t, [calls[t] EXCEPT !.pc = "query",
                    !.file_path = path_to_resource(calls[t].self, calls[t].path)])

\* Mutant: the query string is kept in a place shared by the calls, and a call
\* takes the one it finds there.
SignQuery_shared(t) ==
    /\ calls[t].pc = "query"
    /\ LET built == {calls[u].query_string :
                        u \in {v \in Threads : v # t /\ calls[v].query_string # <<>>}}
       IN  Step(t, [calls[t] EXCEPT !.pc = "request",
                        !.query_string =
                            IF built # {} THEN CHOOSE q \in built : TRUE
                            ELSE get_canonical_query_string(calls[t].issue_date,
                                                            calls[t].duration)])

\* let query_string = Self::get_canonical_query_string(&issue_date, duration);
SignQuery(t) ==
    /\ calls[t].pc = "query"
    /\ Step(t, [calls[t] EXCEPT !.pc = "request",
                    !.query_string =
                        get_canonical_query_string(calls[t].issue_date,
                                                   calls[t].duration)])

\* let canonical_request = self.get_canonical_request(&file_path, &query_string, http_verb);
SignRequest(t) ==
    /\ calls[t].pc = "request"
    /\ Step(t, [calls[t] EXCEPT !.pc = "hash",
                    !.canonical_request =
                        get_canonical_request(calls[t].file_path,
                                              calls[t].query_string,
                                              calls[t].http_verb)])

\* Mutant: the digest is taken of the query string, not of the canonical request.
SignHash_of_query_string(t) ==
    /\ calls[t].pc = "hash"
    /\ Step(t, [calls[t] EXCEPT !.pc = "to_sign",
                    !.hex_hash = hex_encode(sha256(calls[t].query_string))])

\* let hash = sha::sha256(canonical_request.as_bytes()); let hex_hash = hex::encode(hash);
SignHash(t) ==
    /\ calls[t].pc = "hash"
    /\ Step(t, [calls[t] EXCEPT !.pc = "to_sign",
                    !.hex_hash = hex_encode(sha256(calls[t].canonical_request))])

\* let string_to_sign = format!(...);
SignStringToSign(t) ==
    /\ calls[t].pc = "to_sign"
    /\ Step(t, [calls[t] EXCEPT !.pc = "sign_str",
                    !.string_to_sign =
                        string_to_sign_of(calls[t].issue_date, calls[t].hex_hash)])

\* let buffer = Self::sign_str(&string_to_sign);
SignSignStr(t) ==
    /\ calls[t].pc = "sign_str"
    /\ LET buffer == sign_str(calls[t].string_to_sign)
       IN  Step(t, [calls[t] EXCEPT !.pc = "encode", !.buffer = buffer,
                        !.key_parses = @ + 1,
                        !.signed = IF buffer.tag = "Ok"
                                   THEN Append(@, calls[t].string_to_sign) ELSE @])

\* Mutant: a failure of sign_str is swallowed, and the URL is built from an empty
\* signature.
SignEncode_swallows_error(t) ==
    /\ calls[t].pc = "encode"
    /\ Step(t, [calls[t] EXCEPT !.pc = "url",
                    !.signature = IF calls[t].buffer.tag = "Ok"
                                  THEN hex_encode(calls[t].buffer.val) ELSE <<>>])

\* let signature = hex::encode(&buffer?);
SignEncode(t) ==
    /\ calls[t].pc = "encode"
    /\ IF calls[t].buffer.tag = "Ok"
       THEN Step(t, [calls[t] EXCEPT !.pc = "url",
                                     !.signature = hex_encode(calls[t].buffer.val)])
       ELSE Step(t, [calls[t] EXCEPT !.pc = "returned", !.result = calls[t].buffer])

\* Ok(format!("https://storage.googleapis.com{path_to_resource}?{query_string}&X-Goog-Signature=..."))
SignUrl(t) ==
    /\ calls[t].pc = "url"
    /\ Step(t, [calls[t] EXCEPT !.pc = "returned",
                    !.result = Ok(signed_url_of(calls[t].file_path,
                                                calls[t].query_string,
                                                calls[t].signature))])

\* Mutant: the locals of the call outlive it.
Return_keeps_locals(t) ==
    /\ calls[t].pc = "returned"
    /\ Step(t, [calls[t] EXCEPT !.pc = "idle"])

\* The caller takes the result; the frame of the call is dropped.
Return(t) ==
    /\ calls[t].pc = "returned"
    /\ Step(t, IdleCall)

Sign(t) ==
    \/ SignGuard(t) \/ SignNow(t) \/ SignPath(t) \/ SignQuery(t)
    \/ SignRequest(t) \/ SignHash(t) \/ SignStringToSign(t)
    \/ SignSignStr(t) \/ SignEncode(t) \/ SignUrl(t)

\* One caller: the calls of download_url follow one another while the clock runs.
Next ==
    \/ Tick
    \/ \E self \in Objects, duration \in Durations : download_url(1, self, duration)
    \/ Sign(1)
    \/ Return(1)

Spec == Init /\ [][Next]_vars

-----------------------------------------------------------------------------
(* The helpers applied on their own, to inputs drawn from bounded sets     *)

\* Every ASCII character, and characters of two, three and four UTF-8 bytes.
AllChars == (0..127) \cup {128, 228, 2047, 2048, 27979, 65535, 65536, 128512, 1114111}

\* a, 2, space, /, ~, %, * and a-umlaut.
SampleChars == {97, 50, 32, 47, 126, 37, 42, 228}

\* The strings given to the encoders: every string of one character, the strings
\* of up to MaxEncLen sample characters, and the names of Objects.
EncStrings ==
    {<<>>} \cup {Utf8(c) : c \in AllChars}
    \cup UNION { {Str(cps) : cps \in [1..n -> SampleChars]} : n \in 2..MaxEncLen }
    \cup {o.name : o \in Objects}

Verbs == {GET, Bytes("POST"), Bytes("PUT"), Bytes("get"), <<>>}

Paths ==
    { Bytes("/my-bucket/my-file"), Bytes("/b/a%20b/c"), Bytes("/"), <<>>,
      Bytes("/b/x") \o NL \o Bytes("y") }

Queries ==
    { Bytes("Q"), <<>>, Bytes("a=b&c=d"), Bytes("X-Goog-Expires=1") \o NL,
      Bytes("X-Goog-Algorithm=GOOG4-RSA-SHA256&X-Goog-SignedHeaders=host") }

\* 1970-01-01T00:00:00Z, 1999-12-31T23:59:59Z, 2000-02-29T12:00:00Z,
\* 2020-02-29T23:59:59Z, 2021-03-04T10:00:00Z, 2021-03-04T23:59:59Z,
\* 2021-12-31T23:59:59Z, 2038-01-19T03:14:07Z, and from 2020-12-15T00:00:00Z
\* on each of MaxDays days its first and its last second.
Dates ==
    { 0, 946684799, 951825600, 1583020799, 1614852000, 1614902399, 1640995199,
      2147483647 }
    \cup {1607990400 + 86400 * k : k \in 0..(MaxDays - 1)}
    \cup {1607990400 + 86400 * k + 86399 : k \in 0..(MaxDays - 1)}

FnInput(s1, s2, s3, t) ==
    [op |-> "input", s1 |-> s1, s2 |-> s2, s3 |-> s3, t |-> t, out |-> <<>>]

FnInputs ==
    {FnInput(s, <<>>, <<>>, 0) : s \in EncStrings}
    \cup {FnInput(p, q, v, 0) : p \in Paths, q \in Queries, v \in Verbs}
    \cup {FnInput(<<>>, <<>>, <<>>, t) : t \in Dates}

FnInit ==
    /\ SERVICE_ACCOUNT = [client_email |-> Bytes("sa@p-1.iam"), private_key |-> PemRsaA]
    /\ clock = 1614852000
    /\ ticks = 0
    /\ calls = [t \in Threads |-> IdleCall]
    /\ fn \in FnInputs
    /\ store = {}
    /\ listing = NoListing

Apply(op, out) ==
    /\ fn.op = "input"
    /\ fn' = [fn EXCEPT !.op = op, !.out = out]
    /\ UNCHANGED <<SERVICE_ACCOUNT, clock, ticks, calls, store, listing>>

ApplyPercentEncode == Apply("percent_encode", percent_encode(fn.s1))

ApplyPercentEncodeNoslash ==
    Apply("percent_encode_noslash", percent_encode_noslash(fn.s1))

ApplyGetCanonicalRequest ==
    Apply("get_canonical_request", get_canonical_request(fn.s1, fn.s2, fn.s3))

ApplyGetCredentialScope ==
    Apply("get_credential_scope", get_credential_scope(fn.t))

FnNext ==
    \/ ApplyPercentEncode
    \/ ApplyPercentEncodeNoslash
    \/ ApplyGetCanonicalRequest
    \/ ApplyGetCredentialScope

FnSpec == FnInit /\ [][FnNext]_vars

-----------------------------------------------------------------------------
(* Calls of download_url made concurrently                                 *)

\* The object, the durations and the service account of the concurrent calls.
ConcObjects == {[bucket |-> Bytes("b"), name |-> Bytes("a b/c")]}
ConcDurations == {100, MAX_DURATION + 1}
ConcAccount == [client_email |-> Bytes("sa@p-1.iam"), private_key |-> PemRsaA]

\* 2021-03-04T23:59:59Z.
ConcStart == 1614902399

ConcInit ==
    /\ SERVICE_ACCOUNT = ConcAccount
    /\ clock = ConcStart
    /\ ticks = 0
    /\ calls = [t \in Threads |-> IdleCall]
    /\ fn = FnIdle
    /\ store = {}
    /\ listing = NoListing

\* Every caller makes its calls one after another; the steps of different
\* callers interleave in any order while the clock runs.
ConcNext ==
    \/ Tick
    \/ \E t \in Threads :
        \/ \E self \in ConcObjects, duration \in ConcDurations :
              download_url(t, self, duration)
        \/ Sign(t)
        \/ Return(t)

ConcSpec == ConcInit /\ [][ConcNext]_vars

-----------------------------------------------------------------------------
(* Object::list and Object::list_prefix                                    *)

\* The names of the objects the callers create and delete, and the prefixes
\* they list by.
ListNames ==
    { Bytes("test-list-prefix/1"), Bytes("test-list-prefix/2"),
      Bytes("test-list-prefix/sub/1"), Bytes("test-list-prefix/sub/2"),
      Bytes("test-delete") }
ListPrefixes ==
    {Bytes("test-list-prefix/"), Bytes("test-list-prefix/sub"), Bytes("test-delete")}

\* Option<&str>.
None == [some |-> FALSE, val |-> <<>>]
Some(v) == [some |-> TRUE, val |-> v]

\* list_from(bucket, prefix, page_token): panic!(); the request that follows in
\* the source is commented out.
list_from(prefix, page_token) ==
    [status |-> "panicked", prefix |-> prefix.val, items |-> {}]

ListInit ==
    /\ SERVICE_ACCOUNT = [client_email |-> Bytes("sa@p-1.iam"), private_key |-> PemRsaA]
    /\ clock = 1614852000
    /\ ticks = 0
    /\ calls = [t \in Threads |-> IdleCall]
    /\ fn = FnIdle
    /\ store = {}
    /\ listing = NoListing

\* Object::create(bucket, file, filename, mime_type): the object is stored.
\* (Here and below: a caller that has panicked makes no further call.)
create(filename) ==
    /\ listing.status # "panicked"
    /\ store' = store \cup {filename}
    /\ UNCHANGED <<SERVICE_ACCOUNT, clock, ticks, calls, fn, listing>>

\* Object::delete(bucket, file_name): the object is no longer stored.
delete(file_name) ==
    /\ listing.status # "panicked"
    /\ file_name \in store
    /\ store' = store \ {file_name}
    /\ UNCHANGED <<SERVICE_ACCOUNT, clock, ticks, calls, fn, listing>>

\* Object::list(bucket): Self::list_from(bucket, None, None).await
list ==
    /\ listing.status # "panicked"
    /\ listing' = list_from(None, None)
    /\ UNCHANGED <<SERVICE_ACCOUNT, clock, ticks, calls, fn, store>>

\* Object::list_prefix(bucket, prefix): Self::list_from(bucket, Some(prefix), None).await
list_prefix(prefix) ==
    /\ listing.status # "panicked"
    /\ listing' = list_from(Some(prefix), None)
    /\ UNCHANGED <<SERVICE_ACCOUNT, clock, ticks, calls, fn, store>>

ListNext ==
    \/ \E filename \in ListNames : create(filename)
    \/ \E file_name \in ListNames : delete(file_name)
    \/ list
    \/ \E prefix \in ListPrefixes : list_prefix(prefix)

ListSpec == ListInit /\ [][ListNext]_vars

-----------------------------------------------------------------------------
(* Reading the produced strings back                                       *)

\* The places of byte sep in s, and the fields of s split at sep, in order.
SepPlaces(s, sep) == {i \in 1..Len(s) : s[i] = sep}
Split(s, sep) ==
    LET P == SepPlaces(s, sep)
        n == Cardinality(P)
        place == [k \in 0..(n + 1) |->
                    IF k = 0 THEN 0
                    ELSE IF k = n + 1 THEN Len(s) + 1
                    ELSE CHOOSE i \in P : Cardinality({j \in P : j < i}) = k - 1]
    IN  [k \in 1..(n + 1) |-> SubSeq(s, place[k - 1] + 1, place[k] - 1)]
NumFields(s, sep) == Cardinality(SepPlaces(s, sep)) + 1
Field(s, sep, k) == Split(s, sep)[k]

StartsWith(s, prefix) ==
    Len(s) >= Len(prefix) /\ SubSeq(s, 1, Len(prefix)) = prefix
After(s, prefix) == SubSeq(s, Len(prefix) + 1, Len(s))

\* The values of parameter name (given as "name=") among the &-separated fields of s.
ParamValues(s, name) ==
    LET fields == Split(s, 38)
    IN  {After(fields[k], name) :
            k \in {j \in 1..Len(fields) : StartsWith(fields[j], name)}}

IsHexLower(b) == b \in 48..57 \/ b \in 97..102
IsHexUpper(b) == b \in 48..57 \/ b \in 65..70
HexValue(b) ==
    IF b \in 48..57 THEN b - 48 ELSE IF b \in 97..102 THEN b - 87 ELSE b - 55

\* A decimal numeral as Display writes one, and its value.
IsNumeral(s) ==
    /\ Len(s) >= 1
    /\ \A i \in 1..Len(s) : IsDigit(s[i])
    /\ Len(s) > 1 => s[1] # 48
RECURSIVE NumeralValue(_)
NumeralValue(s) ==
    IF s = <<>> THEN 0
    ELSE 10 * NumeralValue(SubSeq(s, 1, Len(s) - 1)) + (s[Len(s)] - 48)

\* The frames of calls that are under way or have returned.
Frames == {calls[t] : t \in {u \in Threads : calls[u].pc # "idle"}}
Returned == {f \in Frames : f.pc = "returned"}

RsaKeyConfigured == SERVICE_ACCOUNT.private_key \in {PemRsaA, PemRsaB}

-----------------------------------------------------------------------------
(* Claims                                                                  *)

\* C1: with a well-formed RSA key, every call with 0 < duration <= 604800 returns
\* Ok with a URL whose only X-Goog-Expires parameter is the decimal numeral of
\* the duration.
C1_ExpiresIsDuration ==
    \A f \in Returned :
        (RsaKeyConfigured /\ 0 < f.duration /\ f.duration <= 604800) =>
            /\ f.result.tag = "Ok"
            /\ StartsWith(f.result.val, Bytes("https://"))
            /\ \E v \in ParamValues(f.result.val, Bytes("X-Goog-Expires=")) :
                /\ ParamValues(f.result.val, Bytes("X-Goog-Expires=")) = {v}
                /\ IsNumeral(v)
                /\ NumeralValue(v) = f.duration

\* A call with the maximal duration, 604800, has returned a URL.
C1_Witness ==
    \E f \in Returned :
        RsaKeyConfigured /\ f.duration = 604800 /\ f.result.tag = "Ok"

\* C2: a call with duration > 604800 returns the duration error from the guard:
\* it never goes past the guard, the clock is not read, the key is not parsed,
\* nothing is signed and no local of sign is computed, whatever the key is.
C2_LongDurationRejectedFirst ==
    \A f \in Frames :
        f.duration > 604800 =>
            /\ f.pc \in {"guard", "returned"}
            /\ f.now_reads = 0 /\ f.issue_date = NoDate
            /\ f.key_parses = 0 /\ f.signed = <<>> /\ f.buffer = NoResult
            /\ f.file_path = <<>> /\ f.query_string = <<>>
            /\ f.canonical_request = <<>> /\ f.string_to_sign = <<>>
            /\ f.signature = <<>>
            /\ f.pc = "returned" =>
                /\ f.result.tag = "Err"
                /\ f.result.err = "Other"
                /\ StartsWith(f.result.val, Bytes("duration may not be greater than"))

\* A call with duration 604801 has returned the duration error although the
\* configured key cannot be parsed.
C2_Witness ==
    \E f \in Returned :
        /\ f.duration = 604801
        /\ SERVICE_ACCOUNT.private_key = PemGarbage
        /\ f.result.tag = "Err" /\ f.result.err = "Other"

LitUrlHost == Bytes("https://storage.googleapis.com")
LitSignatureParam == Bytes("&X-Goog-Signature=")
LitSignatureName == Bytes("X-Goog-Signature=")
LitDateName == Bytes("X-Goog-Date=")
LitCredentialName == Bytes("X-Goog-Credential=")

\* bs written as lowercase hex digits, two per byte.
IsLowerHexOf(text, bs) ==
    /\ Len(text) = 2 * Len(bs)
    /\ \A i \in 1..Len(bs) :
        /\ IsHexLower(text[2 * i - 1]) /\ IsHexLower(text[2 * i])
        /\ 16 * HexValue(text[2 * i - 1]) + HexValue(text[2 * i]) = bs[i]

\* C3: a returned URL is "https://storage.googleapis.com", the path, "?", the
\* query string, "&X-Goog-Signature=" and the lowercase hex of the signature
\* bytes, the path and the query string being lines 2 and 3 of the canonical
\* request whose digest is in the string that was signed; X-Goog-Signature is
\* the last parameter.
C3_UrlIsHostPathQuerySignature ==
    \A f \in Returned :
        f.result.tag = "Ok" =>
            LET url == f.result.val
                head == Concat(<<LitUrlHost, Field(f.canonical_request, 10, 2),
                                 <<63>>, Field(f.canonical_request, 10, 3),
                                 LitSignatureParam>>)
            IN  /\ StartsWith(url, head)
                /\ f.buffer.tag = "Ok"
                /\ IsLowerHexOf(After(url, head), f.buffer.val)
                /\ IsLowerHexOf(f.hex_hash, sha256(f.canonical_request))
                /\ Field(f.string_to_sign, 10, 4) = f.hex_hash
                /\ f.signed = <<f.string_to_sign>>
                /\ StartsWith(Field(url, 38, NumFields(url, 38)), LitSignatureName)

\* A URL has been returned for the object path/to/file.png of my_bucket.
C3_Witness ==
    \E f \in Returned :
        /\ f.result.tag = "Ok"
        /\ f.self.name = Bytes("path/to/file.png")
        /\ StartsWith(f.result.val,
                      Bytes("https://storage.googleapis.com/my_bucket/path/to/file.png?"))

\* The one value of parameter name in s.
ParamValue(s, name) == CHOOSE v \in ParamValues(s, name) : TRUE

\* The eight bytes after the first "%2F" of an encoded credential: the date of
\* its scope.
ScopeDateOfCredential(cred) ==
    LET M == {i \in 1..(Len(cred) - 2) : SubSeq(cred, i, i + 2) = <<37, 50, 70>>}
        p == CHOOSE i \in M : \A j \in M : i <= j
    IN  SubSeq(cred, p + 3, p + 10)

\* C4: a call reads the clock at most once, exactly once when it has passed
\* line 616, and the instant read is the one of X-Goog-Date, of the scope date
\* in X-Goog-Credential, and of the timestamp and scope lines of the string to
\* sign, however the clock has advanced since.
C4_OneInstantPerCall ==
    \A f \in Frames :
        /\ f.now_reads <= 1
        /\ (f.pc \in {"path", "query", "request", "hash", "to_sign", "sign_str",
                      "encode", "url"}) => f.now_reads = 1
        /\ (f.issue_date # NoDate) <=> (f.now_reads = 1)
        /\ f.query_string # <<>> =>
            /\ ParamValues(f.query_string, LitDateName) = {FormatYmdTHmsZ(f.issue_date)}
            /\ ScopeDateOfCredential(ParamValue(f.query_string, LitCredentialName))
                 = SubSeq(ParamValue(f.query_string, LitDateName), 1, 8)
        /\ f.string_to_sign # <<>> =>
            /\ Field(f.string_to_sign, 10, 2) = ParamValue(f.query_string, LitDateName)
            /\ SubSeq(Field(f.string_to_sign, 10, 3), 1, 8)
                 = SubSeq(Field(f.string_to_sign, 10, 2), 1, 8)

\* A string to sign has just been built in a call whose instant is of the day
\* before the present day of the clock: midnight has passed during the call.
C4_Witness ==
    \E f \in Frames :
        /\ f.pc = "sign_str"
        /\ f.string_to_sign # <<>>
        /\ FormatYmd(clock) # FormatYmd(f.issue_date)

LitRequestTail ==
    Concat(<<NL, Bytes("host:storage.googleapis.com"), NL, NL, Bytes("host"), NL,
             Bytes("UNSIGNED-PAYLOAD")>>)
LitPayload == Bytes("UNSIGNED-PAYLOAD")
LitHostHeader == Bytes("host:storage.googleapis.com")
LitHost == Bytes("host")
LitGet == Bytes("GET")
LitMyFile == Bytes("/my-bucket/my-file")
LitQ == Bytes("Q")

HasNewline(s) == \E i \in 1..Len(s) : s[i] = 10

\* C5: get_canonical_request(P, Q, V) is V, P, Q, "host:storage.googleapis.com",
\* an empty line, "host" and "UNSIGNED-PAYLOAD" joined by newlines, with V, P and
\* Q unchanged and no newline at the end.
C5_CanonicalRequestSevenLines ==
    fn.op = "get_canonical_request" =>
        /\ fn.out = Concat(<<fn.s3, NL, fn.s1, NL, fn.s2, LitRequestTail>>)
        /\ fn.out[Len(fn.out)] # 10
        /\ ~(HasNewline(fn.s1) \/ HasNewline(fn.s2) \/ HasNewline(fn.s3)) =>
            /\ NumFields(fn.out, 10) = 7
            /\ Field(fn.out, 10, 1) = fn.s3
            /\ Field(fn.out, 10, 2) = fn.s1
            /\ Field(fn.out, 10, 3) = fn.s2
            /\ Field(fn.out, 10, 4) = LitHostHeader
            /\ Field(fn.out, 10, 5) = <<>>
            /\ Field(fn.out, 10, 6) = LitHost
            /\ Field(fn.out, 10, 7) = LitPayload

\* get_canonical_request has been applied to "GET", "/my-bucket/my-file" and "Q".
C5_Witness ==
    /\ fn.op = "get_canonical_request"
    /\ fn.s3 = LitGet /\ fn.s1 = LitMyFile /\ fn.s2 = LitQ
    /\ NumFields(fn.out, 10) = 7

LitAlgorithmField == Bytes("X-Goog-Algorithm=GOOG4-RSA-SHA256")
LitSignedHeadersField == Bytes("X-Goog-SignedHeaders=host")
LitExpiresName == Bytes("X-Goog-Expires=")
LitScopeSuffix == Bytes("/henk/storage/goog4_request")

Contains(s, part) ==
    \E i \in 1..(Len(s) - Len(part) + 1) : SubSeq(s, i, i + Len(part) - 1) = part

\* C6: the canonical query string is the five parameters X-Goog-Algorithm,
\* X-Goog-Credential, X-Goog-Date, X-Goog-Expires, X-Goog-SignedHeaders in this
\* order, joined by '&', with the values of the claim; the credential value holds
\* no raw '/' or '@', which appear as %2F and %40.
C6_QueryStringFiveOrderedParameters ==
    \A f \in Frames :
        f.query_string # <<>> =>
            LET q == f.query_string
                cred == After(Field(q, 38, 2), LitCredentialName)
            IN  /\ NumFields(q, 38) = 5
                /\ Field(q, 38, 1) = LitAlgorithmField
                /\ StartsWith(Field(q, 38, 2), LitCredentialName)
                /\ cred = percent_encode(Concat(<<SERVICE_ACCOUNT.client_email, <<47>>,
                                                  FormatYmd(f.issue_date),
                                                  LitScopeSuffix>>))
                /\ \A i \in 1..Len(cred) : cred[i] \notin {47, 64}
                /\ Contains(cred, <<37, 50, 70>>) /\ Contains(cred, <<37, 52, 48>>)
                /\ Field(q, 38, 3) = LitDateName \o FormatYmdTHmsZ(f.issue_date)
                /\ StartsWith(Field(q, 38, 4), LitExpiresName)
                /\ IsNumeral(After(Field(q, 38, 4), LitExpiresName))
                /\ NumeralValue(After(Field(q, 38, 4), LitExpiresName)) = f.duration
                /\ Field(q, 38, 5) = LitSignedHeadersField

\* A query string has been built for the account x_y@q.com and duration 100.
C6_Witness ==
    \E f \in Frames :
        /\ f.query_string # <<>>
        /\ f.duration = 100
        /\ SERVICE_ACCOUNT.client_email = Bytes("x_y@q.com")

LitAlgorithm == Bytes("GOOG4-RSA-SHA256")

\* C7: the string to sign is the four lines "GOOG4-RSA-SHA256", the timestamp of
\* the call, its credential scope and the lowercase hex digest of the canonical
\* request of the call; the signer is given this string and nothing else, once,
\* and the X-Goog-Signature of the URL is the hex of the signature of it.
C7_SignsTheStringToSign ==
    \A f \in Frames :
        /\ Len(f.signed) <= 1
        /\ f.string_to_sign # <<>> =>
            /\ NumFields(f.string_to_sign, 10) = 4
            /\ Field(f.string_to_sign, 10, 1) = LitAlgorithm
            /\ Field(f.string_to_sign, 10, 2) = FormatYmdTHmsZ(f.issue_date)
            /\ Field(f.string_to_sign, 10, 3) = FormatYmd(f.issue_date) \o LitScopeSuffix
            /\ IsLowerHexOf(Field(f.string_to_sign, 10, 4), sha256(f.canonical_request))
        /\ f.buffer.tag = "Ok" =>
            /\ f.signed = <<f.string_to_sign>>
            /\ f.buffer.val =
                 sign_to_vec(private_key_from_pem(SERVICE_ACCOUNT.private_key),
                             f.string_to_sign)
        /\ f.signed # <<>> => f.buffer.tag = "Ok"
        /\ (f.pc = "returned" /\ f.result.tag = "Ok") =>
            \E v \in ParamValues(f.result.val, LitSignatureName) :
                /\ ParamValues(f.result.val, LitSignatureName) = {v}
                /\ IsLowerHexOf(v, f.buffer.val)

\* A URL has been returned whose signature is that of the string to sign of the call.
C7_Witness ==
    \E f \in Returned :
        /\ f.result.tag = "Ok"
        /\ f.signed = <<f.string_to_sign>>
        /\ f.string_to_sign # <<>>

-----------------------------------------------------------------------------

\* The day number of the civil date y-m-d.
DaysFromCivil(y, m, d) ==
    LET yy  == IF m <= 2 THEN y - 1 ELSE y
        era == yy \div 400
        yoe == yy - era * 400
        doy == (153 * (IF m > 2 THEN m - 3 ELSE m + 9) + 2) \div 5 + d - 1
        doe == yoe * 365 + yoe \div 4 - yoe \div 100 + doy
    IN  era * 146097 + doe - 719468

LitScope20210304 == Bytes("20210304/henk/storage/goog4_request")

\* C8: the credential scope of a timestamp is the eight digits YYYYMMDD of its
\* UTC date followed by "/henk/storage/goog4_request"; for 2021-03-04T10:00:00Z
\* it is "20210304/henk/storage/goog4_request".
C8_CredentialScopeIsDatePlusLiteral ==
    fn.op = "get_credential_scope" =>
        LET ymd == SubSeq(fn.out, 1, 8)
            y == NumeralValue(SubSeq(ymd, 1, 4))
            m == NumeralValue(SubSeq(ymd, 5, 6))
            d == NumeralValue(SubSeq(ymd, 7, 8))
        IN  /\ Len(fn.out) = 8 + Len(LitScopeSuffix)
            /\ After(fn.out, ymd) = LitScopeSuffix
            /\ \A i \in 1..8 : IsDigit(ymd[i])
            /\ m \in 1..12 /\ d \in 1..31
            /\ DaysFromCivil(y, m, d) = fn.t \div 86400
            /\ fn.t = 1614852000 => fn.out = LitScope20210304

\* get_credential_scope has been applied to 2021-03-04T10:00:00Z.
C8_Witness ==
    /\ fn.op = "get_credential_scope"
    /\ fn.t = 1614852000
    /\ fn.out = LitScope20210304

-----------------------------------------------------------------------------

KeepStrict == {42, 45, 46, 95}
KeepPath == {42, 45, 46, 95, 47, 126}

Kept(b, keep) == IsAlnum(b) \/ b \in keep

\* Where the image of byte i of input starts in the output.
ImagePlace(input, keep, i) ==
    i + 2 * Cardinality({j \in 1..(i - 1) : ~Kept(input[j], keep)})

\* out is input with each byte either copied (kept bytes) or written as %XX.
EncodesByteWise(input, out, keep) ==
    /\ Len(out) = ImagePlace(input, keep, Len(input) + 1) - 1
    /\ \A i \in 1..Len(input) :
        LET p == ImagePlace(input, keep, i)
        IN  IF Kept(input[i], keep) THEN out[p] = input[i]
            ELSE /\ out[p] = 37
                 /\ IsHexUpper(out[p + 1]) /\ IsHexUpper(out[p + 2])
                 /\ 16 * HexValue(out[p + 1]) + HexValue(out[p + 2]) = input[i]

\* out holds only letters, digits, bytes of keep and %XX triplets.
OnlySafeBytes(out, keep) ==
    \A i \in 1..Len(out) :
        \/ Kept(out[i], keep)
        \/ /\ out[i] = 37 /\ i + 2 <= Len(out)
           /\ IsHexUpper(out[i + 1]) /\ IsHexUpper(out[i + 2])

LitABC == Bytes("a b/c")
LitABCStrict == Bytes("a%20b%2Fc")
LitABCPath == Bytes("a%20b/c")

\* C9: both encoders map each byte of any input on its own, copying letters,
\* digits and the bytes of their keep-set ({* - . _}, and {* - . _ / ~} for the
\* path encoder) and writing every other byte as %XX; "a b/c" gives "a%20b%2Fc"
\* and "a%20b/c"; the output holds only kept bytes and %XX triplets.
C9_EncodersMapByteWise ==
    /\ fn.op = "percent_encode" =>
        /\ EncodesByteWise(fn.s1, fn.out, KeepStrict)
        /\ OnlySafeBytes(fn.out, KeepStrict)
        /\ \A i \in 1..Len(fn.out) : fn.out[i] # 47
        /\ fn.s1 = LitABC => fn.out = LitABCStrict
    /\ fn.op = "percent_encode_noslash" =>
        /\ EncodesByteWise(fn.s1, fn.out, KeepPath)
        /\ OnlySafeBytes(fn.out, KeepPath)
        /\ Cardinality(SepPlaces(fn.out, 47)) = Cardinality(SepPlaces(fn.s1, 47))
        /\ fn.s1 = LitABC => fn.out = LitABCPath

\* The path encoder has been applied to "a b/c".
C9_Witness ==
    /\ fn.op = "percent_encode_noslash"
    /\ fn.s1 = LitABC
    /\ fn.out = LitABCPath

\* C10: the resource path of a call is "/", the bucket, "/" and the path-encoded
\* object name, and holds only letters, digits, * - . _ / ~ and %XX triplets,
\* whatever the bucket and the object name are.
C10_ResourcePathHasOnlySafeBytes ==
    \A f \in Frames :
        f.file_path # <<>> =>
            LET head == Concat(<<<<47>>, f.self.bucket, <<47>>>>)
            IN  /\ StartsWith(f.file_path, head)
                /\ Cardinality(SepPlaces(After(f.file_path, head), 47))
                     = Cardinality(SepPlaces(f.self.name, 47))
                /\ OnlySafeBytes(f.file_path, KeepPath)

LitHttps == Bytes("https://")

\* The configured key fails in sign_str: it does not parse, or the signer
\* rejects it.
KeyFails == ~RsaKeyConfigured

\* C11: a call that fails (duration above 604800, a key that does not parse, a
\* key the signer rejects) returns an Err value and nothing of a URL; the key is
\* parsed at most once per call (no retry); once sign_str has failed the call
\* computes nothing more and returns that very error; a call returns Err only
\* for one of these reasons, and every call ends in a value, Ok or Err.
C11_FailureReturnsErrorOnly ==
    \A f \in Frames :
        /\ f.key_parses <= 1
        /\ f.buffer.tag = "Err" =>
            /\ KeyFails
            /\ f.pc \in {"encode", "returned"}
            /\ f.signature = <<>> /\ f.signed = <<>>
        /\ f.pc = "returned" =>
            /\ f.result.tag \in {"Ok", "Err"}
            /\ (f.duration > 604800 \/ KeyFails) =>
                /\ f.result.tag = "Err"
                /\ ~StartsWith(f.result.val, LitHttps)
                /\ f.signature = <<>>
            /\ (f.duration <= 604800 /\ KeyFails) =>
                /\ f.result = f.buffer
                /\ f.result.err = "ErrorStack"
                /\ f.key_parses = 1
            /\ f.result.tag = "Err" => (f.duration > 604800 \/ f.buffer.tag = "Err")
            /\ f.result.tag = "Ok" => StartsWith(f.result.val, LitHttps)

\* A call with an admissible duration has returned the error of a key that does
\* not parse.
C11_Witness ==
    \E f \in Returned :
        /\ SERVICE_ACCOUNT.private_key = PemGarbage
        /\ f.duration = 100
        /\ f.result.tag = "Err" /\ f.result.err = "ErrorStack"
        /\ f.key_parses = 1

LitZero == Bytes("0")

\* C17: a call with duration 0 passes the guard (it goes on to line 616 and
\* reads the clock) and, with a well-formed RSA key, returns Ok with a URL
\* whose only X-Goog-Expires value is "0"; the duration error is returned for
\* durations above 604800 and for no other duration.
C17_ZeroDurationIsSigned ==
    \A f \in Frames :
        /\ (f.duration = 0 /\ f.pc \notin {"guard", "now"}) => f.now_reads = 1
        /\ f.pc = "returned" =>
            /\ (f.duration = 0 /\ RsaKeyConfigured) =>
                /\ f.result.tag = "Ok"
                /\ ParamValues(f.result.val, LitExpiresName) = {LitZero}
            /\ (f.result.tag = "Err" /\ f.result.err = "Other") <=> f.duration > 604800

\* A call with duration 0 has returned a URL.
C17_Witness ==
    \E f \in Returned :
        /\ f.duration = 0
        /\ f.result.tag = "Ok"
        /\ StartsWith(f.result.val, LitUrlHost)

\* The resource path of an object: "/", its bucket, "/", its path-encoded name.
PathOfObject(o) == Concat(<<<<47>>, o.bucket, <<47>>, percent_encode_noslash(o.name)>>)

\* C15: download_url signs for the verb GET and for the object's own name and
\* bucket: the canonical request starts with the line "GET" and the line of the
\* object's resource path, a returned URL is the host, that path and "?", and
\* its X-Goog-Expires is the duration; the call returns Err exactly when the
\* duration is above 604800, the key does not parse or the signer rejects it.
C15_DownloadUrlSignsGetOfOwnObject ==
    \A f \in Frames :
        /\ f.http_verb = LitGet
        /\ f.path = f.self.name
        /\ f.canonical_request # <<>> =>
            LET lines == Split(f.canonical_request, 10)
            IN  lines[1] = LitGet /\ lines[2] = PathOfObject(f.self)
        /\ f.pc = "returned" =>
            /\ f.result.tag = "Ok" =>
                /\ StartsWith(f.result.val,
                              Concat(<<LitUrlHost, PathOfObject(f.self), <<63>>>>))
                /\ \A v \in ParamValues(f.result.val, LitExpiresName) :
                    IsNumeral(v) /\ NumeralValue(v) = f.duration
                /\ ParamValues(f.result.val, LitExpiresName) # {}
            /\ f.result.tag = "Err" <=>
                \/ f.duration > 604800
                \/ ~private_key_from_pem(SERVICE_ACCOUNT.private_key).ok
                \/ ~SignerNewOk(private_key_from_pem(SERVICE_ACCOUNT.private_key))

\* download_url(100) on my-file of my-bucket has returned its URL.
C15_Witness ==
    \E f \in Returned :
        /\ f.self = [bucket |-> Bytes("my-bucket"), name |-> Bytes("my-file")]
        /\ f.duration = 100
        /\ f.result.tag = "Ok"
        /\ StartsWith(f.result.val,
                      Bytes("https://storage.googleapis.com/my-bucket/my-file?"))

\* The locals of sign in a frame, none of them computed yet.
NoLocals(f) ==
    /\ f.issue_date = NoDate /\ f.file_path = <<>> /\ f.query_string = <<>>
    /\ f.canonical_request = <<>> /\ f.hex_hash = <<>> /\ f.string_to_sign = <<>>
    /\ f.buffer = NoResult /\ f.signature = <<>> /\ f.result = NoResult
    /\ f.now_reads = 0 /\ f.key_parses = 0 /\ f.signed = <<>>

\* C14: no step of a call changes SERVICE_ACCOUNT; while a call is under way the
\* Object it was made on and its arguments stay as they were given; when a call
\* is over nothing of its frame is left, and a call starts with no local
\* computed, so that nothing derived in one call reaches a later one.
C14_SigningLeavesCredentialAndObject ==
    [][ /\ SERVICE_ACCOUNT' = SERVICE_ACCOUNT
        /\ \A t \in Threads :
            /\ (calls[t].pc # "idle" /\ calls'[t].pc # "idle") =>
                /\ calls'[t].self = calls[t].self
                /\ calls'[t].path = calls[t].path
                /\ calls'[t].duration = calls[t].duration
                /\ calls'[t].http_verb = calls[t].http_verb
            /\ calls'[t].pc = "idle" => calls'[t] = IdleCall
            /\ (calls[t].pc = "idle" /\ calls'[t].pc # "idle") =>
                /\ calls'[t].pc = "guard"
                /\ NoLocals(calls'[t]) ]_vars

\* A call made with an RSA key has computed every local and returned its URL.
C14_Witness ==
    \E f \in Returned :
        /\ RsaKeyConfigured
        /\ f.result.tag = "Ok"
        /\ f.signed = <<f.string_to_sign>>
        /\ f.signature # <<>> /\ f.issue_date # NoDate

\* Percent-decoding: "%" followed by two hex digits stands for the byte they
\* name; every other byte stands for itself.
RECURSIVE PercentDecodeFrom(_, _)
PercentDecodeFrom(s, i) ==
    IF i > Len(s) THEN <<>>
    ELSE IF /\ s[i] = 37 /\ i + 2 <= Len(s)
            /\ (IsHexLower(s[i + 1]) \/ IsHexUpper(s[i + 1]))
            /\ (IsHexLower(s[i + 2]) \/ IsHexUpper(s[i + 2]))
         THEN <<16 * HexValue(s[i + 1]) + HexValue(s[i + 2])>>
              \o PercentDecodeFrom(s, i + 3)
         ELSE <<s[i]>> \o PercentDecodeFrom(s, i + 1)
PercentDecode(s) == PercentDecodeFrom(s, 1)

\* No two of the strings of EncStrings have the same encoding.
StrictEncodings == {percent_encode(s) : s \in EncStrings}
PathEncodings == {percent_encode_noslash(s) : s \in EncStrings}
EncodersInjective ==
    /\ Cardinality(StrictEncodings) = Cardinality(EncStrings)
    /\ Cardinality(PathEncodings) = Cardinality(EncStrings)

LitPercent == Bytes("%")
LitPercent25 == Bytes("%25")

\* C18: the output of either encoder percent-decodes to its input, "%" is
\* written as "%25", no two inputs have the same output, and an output that
\* differs from its input is changed again when it is encoded once more.
C18_EncodersReversible ==
    /\ fn.op = "percent_encode" =>
        /\ PercentDecode(fn.out) = fn.s1
        /\ fn.s1 = LitPercent => fn.out = LitPercent25
        /\ fn.out # fn.s1 => percent_encode(fn.out) # fn.out
        /\ EncodersInjective
    /\ fn.op = "percent_encode_noslash" =>
        /\ PercentDecode(fn.out) = fn.s1
        /\ fn.s1 = LitPercent => fn.out = LitPercent25
        /\ fn.out # fn.s1 => percent_encode_noslash(fn.out) # fn.out
        /\ EncodersInjective

\* The path encoder has been applied to "%2a", which reads as an escape of "*".
C18_Witness ==
    /\ fn.op = "percent_encode_noslash"
    /\ fn.s1 = Bytes("%2a")
    /\ fn.out = Bytes("%252a")
    /\ PercentDecode(fn.out) = fn.s1

\* C12: two calls with the same Object, verb and duration that captured the same
\* instant (under the one configured credential) agree on the canonical request,
\* the string to sign, the signature and the returned value, as far as both have
\* computed them, whatever calls were made before and however the clock has
\* advanced since.
C12_SameInputsSameOutputs ==
    \A t1 \in Threads, t2 \in Threads :
        LET f == calls[t1]
            g == calls[t2]
        IN  ( /\ f.pc # "idle" /\ g.pc # "idle"
              /\ f.self = g.self /\ f.http_verb = g.http_verb
              /\ f.duration = g.duration /\ f.issue_date = g.issue_date ) =>
                /\ (f.canonical_request # <<>> /\ g.canonical_request # <<>>) =>
                        f.canonical_request = g.canonical_request
                /\ (f.string_to_sign # <<>> /\ g.string_to_sign # <<>>) =>
                        f.string_to_sign = g.string_to_sign
                /\ (f.buffer # NoResult /\ g.buffer # NoResult) => f.buffer = g.buffer
                /\ (f.signature # <<>> /\ g.signature # <<>>) =>
                        f.signature = g.signature
                /\ (f.pc = "returned" /\ g.pc = "returned") => f.result = g.result

\* Two calls that captured the same instant have both returned a URL, the same
\* one, after the clock has moved on.
C12_Witness ==
    /\ calls[1].pc = "returned" /\ calls[2].pc = "returned"
    /\ calls[1].result.tag = "Ok"
    /\ calls[1].self = calls[2].self /\ calls[1].duration = calls[2].duration
    /\ calls[1].issue_date = calls[2].issue_date
    /\ calls[1].result = calls[2].result
    /\ clock > calls[1].issue_date

\* What sign computes for an Object, a duration and an instant when no other call
\* is made: its locals and its result.
SignAlone(account, self, duration, date) ==
    LET file_path == Concat(<<<<47>>, self.bucket, <<47>>,
                             percent_encode_noslash(self.name)>>)
        credential == Concat(<<account.client_email, <<47>>,
                               get_credential_scope(date)>>)
        query_string ==
            Concat(<<Bytes("X-Goog-Algorithm=GOOG4-RSA-SHA256&X-Goog-Credential="),
                     percent_encode(credential),
                     Bytes("&X-Goog-Date="), FormatYmdTHmsZ(date),
                     Bytes("&X-Goog-Expires="), Dec(duration),
                     Bytes("&X-Goog-SignedHeaders=host")>>)
        canonical_request == get_canonical_request(file_path, query_string, LitGet)
        hex_hash == hex_encode(sha256(canonical_request))
        string_to_sign == string_to_sign_of(date, hex_hash)
        key == private_key_from_pem(account.private_key)
        buffer == IF key.ok /\ SignerNewOk(key)
                  THEN Ok(sign_to_vec(key, string_to_sign))
                  ELSE Err("ErrorStack", IF key.ok THEN <<2>> ELSE <<1>>)
        signature == IF buffer.tag = "Ok" THEN hex_encode(buffer.val) ELSE <<>>
    IN  [ file_path |-> file_path, query_string |-> query_string,
          canonical_request |-> canonical_request, hex_hash |-> hex_hash,
          string_to_sign |-> string_to_sign, buffer |-> buffer,
          signature |-> signature,
          result |-> IF buffer.tag = "Ok"
                     THEN Ok(signed_url_of(file_path, query_string, signature))
                     ELSE buffer ]

\* The instants the clock of the concurrent calls can show.
ConcDates == ConcStart..(ConcStart + MaxTicks)

AloneRuns ==
    [ self \in ConcObjects |->
        [ duration \in {d \in ConcDurations : d <= 604800} |->
            [ date \in ConcDates |-> SignAlone(ConcAccount, self, duration, date) ] ] ]

\* C13: with any number of calls under way, their steps interleaved in any
\* order, each call reads the clock at most once, and every local it has computed
\* and the value it returns are the ones the same call computes alone for the
\* instant it read (for a duration above 604800: the duration error, no instant
\* read and no local computed).
C13_ConcurrentCallsAsAlone ==
    \A t \in Threads :
        LET f == calls[t]
        IN  f.pc # "idle" =>
              /\ f.now_reads <= 1
              /\ IF f.duration > 604800
                 THEN /\ NoLocals([f EXCEPT !.result = NoResult])
                      /\ f.pc = "returned" => f.result = DurationError(f.duration)
                 ELSE IF f.issue_date = NoDate
                 THEN f.pc \in {"guard", "now"} /\ NoLocals(f)
                 ELSE LET alone == AloneRuns[f.self][f.duration][f.issue_date]
                      IN  /\ f.issue_date \in ConcStart..clock
                          /\ f.file_path \in {<<>>, alone.file_path}
                          /\ f.query_string \in {<<>>, alone.query_string}
                          /\ f.canonical_request \in {<<>>, alone.canonical_request}
                          /\ f.hex_hash \in {<<>>, alone.hex_hash}
                          /\ f.string_to_sign \in {<<>>, alone.string_to_sign}
                          /\ f.buffer \in {NoResult, alone.buffer}
                          /\ f.signature \in {<<>>, alone.signature}
                          /\ f.pc = "returned" => f.result = alone.result

\* Two calls under way at once have captured different instants, and one of them
\* has returned its URL while the other has not yet built its query string.
C13_Witness ==
    /\ calls[1].pc = "returned" /\ calls[1].result.tag = "Ok"
    /\ calls[2].pc = "query"
    /\ calls[1].issue_date > calls[2].issue_date
    /\ calls[2].issue_date # NoDate

\* C16: a call of list or list_prefix ends by returning to its caller the stored
\* objects whose names start with the prefix (all of them for list); it does
\* not abort.
C16_ListPrefixReturnsStoredObjects ==
    listing.status # "none" =>
        /\ listing.status = "ok"
        /\ listing.items = {name \in store : StartsWith(name, listing.prefix)}

=============================================================================
